---------------------------- MODULE Spec2Model ----------------------------
(***************************************************************************)
(* Model of custom_components/netatmo_custom/alarm_control_panel.py:       *)
(* NetatmoAlarmEntity, the alarm control panel of a Netatmo home.          *)
(*                                                                         *)
(* Python values are modelled as strings: "True", "False" and "None" for   *)
(* the values an attribute such as person.out_of_sight or                  *)
(* device.monitoring may hold, so that truthiness (`all`, `or`, `and`,     *)
(* `if x := ...`) is computed as Python computes it.                       *)
(*                                                                         *)
(* A command handler (async_alarm_arm_away, async_alarm_disarm) is a       *)
(* coroutine on the single event loop: it runs to its `await`, is          *)
(* suspended while the remote call is in flight, and runs from the await   *)
(* to its end without interruption when the call returns.  Each handler    *)
(* is therefore two atomic steps (call, then return or raise); any other   *)
(* step may happen in between.                                             *)
(***************************************************************************)
EXTENDS Integers, Sequences, FiniteSets

\* ------------------------------------------------------------------ bounds

\* Persons of the home are numbered 1..MaxPersons; a home holds any subset.
MaxPersons == 2

PersonIds == 1..MaxPersons

\* The module ids a bridge attribute may name.
ModuleIds == {"cam"}

\* --------------------------------------------------------- python values

PyTrue == "True"

PyFalse == "False"

None == "None"

\* The values of an optional boolean attribute (bool | None).
Flags == {PyTrue, PyFalse, None}

\* Python truthiness of the values used here: None, False and the empty
\* string are falsy; True, a non-empty id and a module object are truthy.
Truthy(x) == x \notin {PyFalse, None, ""}

\* `a or b`
PyOr(a, b) == IF Truthy(a) THEN a ELSE b

\* `a and b`
PyAnd(a, b) == IF Truthy(a) THEN b ELSE a

\* all(xs) over a list
RECURSIVE PyAll(_)
PyAll(xs) == IF xs = <<>> THEN PyTrue
             ELSE IF Truthy(Head(xs)) THEN PyAll(Tail(xs)) ELSE PyFalse

\* list(d.keys()): the keys of a dict, in the dict's order (here: by id).
RECURSIVE Keys(_)
Keys(d) == IF DOMAIN d = {} THEN <<>>
           ELSE LET k == CHOOSE x \in DOMAIN d : \A y \in DOMAIN d : x <= y
                IN <<k>> \o Keys([x \in DOMAIN d \ {k} |-> d[x]])

\* d.values(): the values of a dict, in the order of its keys.
Values(d) == [i \in 1..Len(Keys(d)) |-> d[Keys(d)[i]]]

\* --------------------------------------------------------------- constants

STATE_ALARM_ARMED_AWAY == "armed_away"

STATE_ALARM_ARMED_HOME == "armed_home"

STATE_ALARM_DISARMED == "disarmed"

\* ALARM_TYPE.netatmo_alarm_states
netatmo_alarm_states ==
    << None, STATE_ALARM_DISARMED, STATE_ALARM_ARMED_AWAY, STATE_ALARM_ARMED_HOME >>

\* ------------------------------------------------------------------- state

VARIABLES
    persons,         \* home.persons: id -> out_of_sight
    modules,         \* home.modules: id -> monitoring of the module
    device,          \* self.device: [bridge, monitoring]
    attr_state,      \* self._attr_state
    attr_available,  \* self._attr_available
    arm,             \* the async_alarm_arm_away coroutine
    disarm,          \* the async_alarm_disarm coroutine
    last_step,       \* observation: which handler ran to its end last
    overlap,         \* observation: the two commands awaited at once
    away_since       \* observation: arm-away returned, flags untouched since

vars == << persons, modules, device, attr_state, attr_available,
           arm, disarm, last_step, overlap, away_since >>

\* A coroutine that has not been called.
Idle == [pc |-> "idle", calls |-> <<>>, notified |-> <<>>]

\* ---------------------------------------------------- derived properties

\* A loop that leaves the first person out.
M_SetOutOfSight_SkipFirst(ps, v) ==
    [p \in DOMAIN ps |-> IF \A q \in DOMAIN ps : p <= q THEN ps[p] ELSE v]

\* The loops `for person in self.home.persons.values(): person.out_of_sight = v`
SetOutOfSight(ps, v) == [p \in DOMAIN ps |-> v]

\* any() in place of all().
M_is_house_empty_Any(ps) ==
    IF \E p \in DOMAIN ps : Truthy(ps[p]) THEN PyTrue ELSE PyFalse

\* Only a flag that is False keeps the house from being empty.
M_is_house_empty_UnsetCounts(ps) ==
    IF \E p \in DOMAIN ps : ps[p] = PyFalse THEN PyFalse ELSE PyTrue

\* is_house_empty
is_house_empty(ps) == PyAll(Values(ps))

\* The parent's flag returned as it is, without `or False`.
M_is_camera_monitoring_NoDefault(dev, mods) ==
    IF Truthy(dev.bridge)
    THEN IF dev.bridge \in DOMAIN mods THEN mods[dev.bridge] ELSE PyFalse
    ELSE PyFalse

\* is_camera_monitoring
is_camera_monitoring(dev, mods) ==
    IF Truthy(dev.bridge)
    THEN IF dev.bridge \in DOMAIN mods
         THEN PyOr(mods[dev.bridge], PyFalse)
         ELSE PyFalse
    ELSE PyFalse

\* is_siren_monitoring
is_siren_monitoring(dev) == PyOr(dev.monitoring, PyFalse)

\* `or` in place of `and`.
M_Available_Or(dev, mods) ==
    PyOr(is_camera_monitoring(dev, mods), is_siren_monitoring(dev))

\* The availability async_update_callback computes.
Available(dev, mods) == PyAnd(is_camera_monitoring(dev, mods), is_siren_monitoring(dev))

\* The label after the one meant, taken from netatmo_alarm_states.
M_AlarmState_NextLabel(ps) ==
    IF Truthy(is_house_empty(ps)) THEN netatmo_alarm_states[4]
    ELSE netatmo_alarm_states[3]

\* The state async_update_callback computes.
AlarmState(ps) ==
    IF Truthy(is_house_empty(ps)) THEN STATE_ALARM_ARMED_AWAY
    ELSE STATE_ALARM_DISARMED

\* -------------------------------------------------------------------- init

\* The entity as constructed, on any home and device.  __init__ sets neither
\* _attr_state nor _attr_available: they hold the entity classes' defaults,
\* no state and available, until the first async_update_callback.

Init ==
    /\ persons \in UNION { [S -> Flags] : S \in SUBSET PersonIds }
    /\ modules \in UNION { [S -> Flags] : S \in SUBSET ModuleIds }
    /\ device \in [bridge : ModuleIds \cup {None}, monitoring : Flags]
    /\ attr_state = None
    /\ attr_available = PyTrue
    /\ arm = Idle
    /\ disarm = Idle
    /\ last_step = "other"
    /\ overlap = FALSE
    /\ away_since = FALSE

\* ----------------------------------------------------------------- actions

\* async_update_callback (Refresh)
async_update_callback ==
    /\ attr_available' = Available(device, modules)
    /\ attr_state' = AlarmState(persons)
    /\ last_step' = "async_update_callback"
    /\ UNCHANGED << persons, modules, device, arm, disarm, overlap, away_since >>

\* The away call made twice.
M_ArmAwayCalls_Twice ==
    << [call |-> "async_set_persons_away", args |-> <<>>],
       [call |-> "async_set_persons_away", args |-> <<>>] >>

\* What async_alarm_arm_away hands to the home before it suspends (line 113).
ArmAwayCalls == << [call |-> "async_set_persons_away", args |-> <<>>] >>

\* The home call made without the first person.
M_DisarmCalls_SkipFirst(ps) ==
    << [call |-> "async_set_persons_home",
        args |-> IF Keys(ps) = <<>> THEN <<>> ELSE Tail(Keys(ps))] >>

\* What async_alarm_disarm hands to the home before it suspends (lines 105-106).
DisarmCalls(ps) == << [call |-> "async_set_persons_home", args |-> Keys(ps)] >>

\* The loop of async_alarm_disarm in async_alarm_arm_away.
M_ArmAwayResume_WritesFalse(ps) ==
    LET written == SetOutOfSight(ps, PyFalse)
    IN [persons |-> written, notified |-> << written >>]

\* The notification emitted before the loop.
M_ArmAwayResume_NotifyFirst(ps) ==
    [persons |-> SetOutOfSight(ps, PyTrue), notified |-> << ps >>]

\* async_alarm_arm_away from the return of its await to its end (lines
\* 114-116): the persons as written, and what the notification shows.
ArmAwayResume(ps) ==
    LET written == SetOutOfSight(ps, PyTrue)
    IN [persons |-> written, notified |-> << written >>]

\* async_alarm_disarm from the return of its await to its end (lines 107-109).
DisarmResume(ps) ==
    LET written == SetOutOfSight(ps, PyFalse)
    IN [persons |-> written, notified |-> << written >>]

\* async_alarm_arm_away, up to its await.  One invocation of each command is
\* in flight at a time; a new one may start once the last has ended.
async_alarm_arm_away_call ==
    /\ arm.pc # "awaiting"
    /\ arm' = [pc |-> "awaiting", calls |-> ArmAwayCalls, notified |-> <<>>]
    /\ overlap' = (disarm.pc = "awaiting")
    /\ last_step' = "other"
    /\ UNCHANGED << persons, modules, device, attr_state, attr_available,
                    disarm, away_since >>

\* async_alarm_arm_away, the remote call returned.
async_alarm_arm_away_return ==
    /\ arm.pc = "awaiting"
    /\ persons' = ArmAwayResume(persons).persons
    /\ arm' = [arm EXCEPT !.pc = "done",
                          !.notified = @ \o ArmAwayResume(persons).notified]
    /\ last_step' = "async_alarm_arm_away"
    /\ away_since' = TRUE
    /\ UNCHANGED << modules, device, attr_state, attr_available, disarm, overlap >>

\* async_alarm_arm_away, the remote call raised: the exception leaves the
\* handler, nothing after the await runs.
async_alarm_arm_away_raise ==
    /\ arm.pc = "awaiting"
    /\ arm' = [arm EXCEPT !.pc = "raised"]
    /\ last_step' = "other"
    /\ UNCHANGED << persons, modules, device, attr_state, attr_available,
                    disarm, overlap, away_since >>

\* async_alarm_disarm, up to its await.
async_alarm_disarm_call ==
    /\ disarm.pc # "awaiting"
    /\ disarm' = [pc |-> "awaiting", calls |-> DisarmCalls(persons), notified |-> <<>>]
    /\ overlap' = (arm.pc = "awaiting")
    /\ last_step' = "other"
    /\ UNCHANGED << persons, modules, device, attr_state, attr_available,
                    arm, away_since >>

\* async_alarm_disarm, the remote call returned.
async_alarm_disarm_return ==
    /\ disarm.pc = "awaiting"
    /\ persons' = DisarmResume(persons).persons
    /\ disarm' = [disarm EXCEPT !.pc = "done",
                                !.notified = @ \o DisarmResume(persons).notified]
    /\ last_step' = "async_alarm_disarm"
    /\ away_since' = (away_since /\ persons' = persons)
    /\ UNCHANGED << modules, device, attr_state, attr_available, arm, overlap >>

\* async_alarm_disarm, the remote call raised.
async_alarm_disarm_raise ==
    /\ disarm.pc = "awaiting"
    /\ disarm' = [disarm EXCEPT !.pc = "raised"]
    /\ last_step' = "other"
    /\ UNCHANGED << persons, modules, device, attr_state, attr_available,
                    arm, overlap, away_since >>

\* The data layer, which owns the home, updates one person's flag.
HomeUpdate ==
    /\ \E p \in DOMAIN persons : \E v \in Flags \ {persons[p]} :
           persons' = [persons EXCEPT ![p] = v]
    /\ last_step' = "other"
    /\ away_since' = FALSE
    /\ UNCHANGED << modules, device, attr_state, attr_available, arm, disarm, overlap >>

\* The data layer updates the home's modules (presence and monitoring).
ModulesUpdate ==
    /\ modules' \in UNION { [S -> Flags] : S \in SUBSET ModuleIds } \ {modules}
    /\ last_step' = "other"
    /\ UNCHANGED << persons, device, attr_state, attr_available, arm, disarm,
                    overlap, away_since >>

\* The data layer updates the siren's own monitoring flag.
DeviceUpdate ==
    /\ \E v \in Flags \ {device.monitoring} :
           device' = [device EXCEPT !.monitoring = v]
    /\ last_step' = "other"
    /\ UNCHANGED << persons, modules, attr_state, attr_available, arm, disarm,
                    overlap, away_since >>

Next ==
    \/ async_update_callback
    \/ async_alarm_arm_away_call
    \/ async_alarm_arm_away_return
    \/ async_alarm_arm_away_raise
    \/ async_alarm_disarm_call
    \/ async_alarm_disarm_return
    \/ async_alarm_disarm_raise
    \/ HomeUpdate
    \/ ModulesUpdate
    \/ DeviceUpdate

Spec == Init /\ [][Next]_vars


\* ------------------------------------------------------------------ claims

AllOutOfSight == \A p \in DOMAIN persons : persons[p] = PyTrue

NoneOutOfSight == \A p \in DOMAIN persons : persons[p] = PyFalse

IsAwayCall(c) == c.call = "async_set_persons_away"

IsHomeCall(c) == c.call = "async_set_persons_home"

Elements(xs) == { xs[i] : i \in 1..Len(xs) }

\* C1: when async_alarm_arm_away has run to its end, every person of the
\* home is out of sight and the command made exactly one call, the home's
\* async_set_persons_away.
C1_ArmAway ==
    last_step = "async_alarm_arm_away" =>
        /\ arm.pc = "done"
        /\ AllOutOfSight
        /\ Len(arm.calls) = 1
        /\ Len(SelectSeq(arm.calls, IsAwayCall)) = 1

\* C1 happens: arm-away ended on a full home whose displayed state, from an
\* earlier refresh, was disarmed.
C1_Witness ==
    /\ last_step = "async_alarm_arm_away"
    /\ DOMAIN persons = PersonIds
    /\ AllOutOfSight
    /\ attr_state = STATE_ALARM_DISARMED

\* C2: when async_alarm_disarm has run to its end, no person of the home is
\* out of sight and the command made exactly one call, the home's
\* async_set_persons_home, with every person id of the home, each once.
C2_Disarm ==
    last_step = "async_alarm_disarm" =>
        /\ disarm.pc = "done"
        /\ NoneOutOfSight
        /\ Len(disarm.calls) = 1
        /\ IsHomeCall(disarm.calls[1])
        /\ Elements(disarm.calls[1].args) = DOMAIN persons
        /\ Len(disarm.calls[1].args) = Cardinality(DOMAIN persons)

\* C2 happens: disarm ended on a full home whose displayed state was armed-away.
C2_Witness ==
    /\ last_step = "async_alarm_disarm"
    /\ DOMAIN persons = PersonIds
    /\ NoneOutOfSight
    /\ Len(disarm.calls[1].args) = MaxPersons
    /\ attr_state = STATE_ALARM_ARMED_AWAY

\* Camera monitoring, stated from the device and the home directly.
CameraOn ==
    /\ device.bridge # None
    /\ device.bridge \in DOMAIN modules
    /\ modules[device.bridge] = PyTrue

\* C3: right after async_update_callback the displayed state is armed-away
\* when all persons are out of sight and disarmed otherwise, and the entity
\* is available exactly when the camera and the siren both monitor.
C3_Refresh ==
    last_step = "async_update_callback" =>
        /\ attr_state = IF AllOutOfSight THEN STATE_ALARM_ARMED_AWAY
                        ELSE STATE_ALARM_DISARMED
        /\ attr_available \in {PyTrue, PyFalse}
        /\ attr_available = PyTrue <=> (CameraOn /\ device.monitoring = PyTrue)

\* C3 happens: a refresh found someone at home, the camera monitoring and the
\* siren not.
C3_Witness ==
    /\ last_step = "async_update_callback"
    /\ \E p \in DOMAIN persons : persons[p] = PyFalse
    /\ CameraOn
    /\ device.monitoring = None
    /\ attr_state = STATE_ALARM_DISARMED
    /\ attr_available = PyFalse

\* C4 as claimed: once written, the displayed state is in every state the
\* function of the persons' current flags.
C4_Original ==
    attr_state # None =>
        attr_state = IF AllOutOfSight THEN STATE_ALARM_ARMED_AWAY
                     ELSE STATE_ALARM_DISARMED

\* C4 amended: the displayed state is the value the last
\* async_update_callback computed: that step sets it from the persons' flags
\* of that moment, and no other step changes it.
C4_Cached ==
    [][ /\ last_step' = "async_update_callback" =>
               attr_state' = IF \A p \in DOMAIN persons' : persons'[p] = PyTrue
                             THEN STATE_ALARM_ARMED_AWAY
                             ELSE STATE_ALARM_DISARMED
        /\ last_step' # "async_update_callback" => attr_state' = attr_state
      ]_vars

\* C4 happens: arm-away has ended and the displayed state still says disarmed.
C4_Witness ==
    /\ last_step = "async_alarm_arm_away"
    /\ DOMAIN persons # {}
    /\ AllOutOfSight
    /\ attr_state = STATE_ALARM_DISARMED

\* C5: a refresh after async_alarm_arm_away ended, the persons' flags
\* untouched in between, displays armed-away; and a refresh of the home
\* {1: False, 2: False} with camera and siren monitoring displays disarmed
\* and available.
C5_ArmThenRefresh ==
    /\ (last_step = "async_update_callback" /\ away_since) =>
           attr_state = STATE_ALARM_ARMED_AWAY
    /\ ( /\ last_step = "async_update_callback"
         /\ persons = [p \in 1..2 |-> PyFalse]
         /\ CameraOn
         /\ device.monitoring = PyTrue ) =>
           (attr_state = STATE_ALARM_DISARMED /\ attr_available = PyTrue)

\* C5 happens: the two persons were put out of sight by arm-away, and the
\* refresh after it displayed armed-away.
C5_Witness ==
    /\ last_step = "async_update_callback"
    /\ away_since
    /\ arm.pc = "done"
    /\ persons = [p \in 1..2 |-> PyTrue]
    /\ CameraOn
    /\ device.monitoring = PyTrue
    /\ attr_state = STATE_ALARM_ARMED_AWAY
    /\ attr_available = PyTrue

\* C6: the description lists four labels, and a step that writes the
\* displayed state writes armed-away or disarmed, never armed-home or the
\* unknown label (None).
C6_TwoLabels ==
    /\ Len(netatmo_alarm_states) = 4
    /\ {None, STATE_ALARM_ARMED_HOME} \subseteq Elements(netatmo_alarm_states)
    /\ [][ (last_step' = "async_update_callback" \/ attr_state' # attr_state) =>
               attr_state' \in {STATE_ALARM_ARMED_AWAY, STATE_ALARM_DISARMED}
         ]_vars

\* C6 happens: a refresh has written a state while a person's flag is unset.
C6_Witness ==
    /\ last_step = "async_update_callback"
    /\ \E p \in DOMAIN persons : persons[p] = None
    /\ attr_state = STATE_ALARM_DISARMED

\* C7: is_house_empty is true exactly when every person's flag is true: true
\* of a home without persons, false when a person's flag is unset.
C7_HouseEmpty ==
    /\ is_house_empty(persons) \in {PyTrue, PyFalse}
    /\ is_house_empty(persons) = PyTrue <=> AllOutOfSight
    /\ DOMAIN persons = {} => is_house_empty(persons) = PyTrue
    /\ (\E p \in DOMAIN persons : persons[p] = None) =>
           is_house_empty(persons) = PyFalse

\* C7 happens: a refresh has read is_house_empty while one person is out of
\* sight and the flag of another is unset.
C7_Witness ==
    /\ last_step = "async_update_callback"
    /\ \E p, q \in DOMAIN persons : persons[p] = PyTrue /\ persons[q] = None
    /\ attr_state = STATE_ALARM_DISARMED

\* C8: is_camera_monitoring is true exactly when the bridge id is set, the
\* module it names is in the home and that module's flag is true, false
\* otherwise; the siren's own flag does not change it.
C8_CameraMonitoring ==
    /\ is_camera_monitoring(device, modules) \in {PyTrue, PyFalse}
    /\ is_camera_monitoring(device, modules) = PyTrue <=> CameraOn
    /\ \A m \in Flags :
           is_camera_monitoring([device EXCEPT !.monitoring = m], modules)
               = is_camera_monitoring(device, modules)

\* C8 happens: a refresh has read is_camera_monitoring with the bridge set,
\* the parent module in the home and its flag unset.
C8_Witness ==
    /\ last_step = "async_update_callback"
    /\ device.bridge \in DOMAIN modules
    /\ modules[device.bridge] = None
    /\ device.monitoring = PyTrue
    /\ attr_available = PyFalse

\* C9: a command whose remote call raises ends raised, with the persons'
\* flags as they were and no notification; a command whose call returns
\* emits one notification, which shows every flag already written; and a
\* notification is emitted by no other step.
C9_Failure ==
    [][ /\ (arm.pc = "awaiting" /\ arm'.pc = "raised") =>
               (persons' = persons /\ arm'.notified = <<>>)
        /\ (disarm.pc = "awaiting" /\ disarm'.pc = "raised") =>
               (persons' = persons /\ disarm'.notified = <<>>)
        /\ (arm.pc = "awaiting" /\ arm'.pc = "done") =>
               /\ arm'.notified = << [p \in DOMAIN persons |-> PyTrue] >>
               /\ persons' = [p \in DOMAIN persons |-> PyTrue]
        /\ (disarm.pc = "awaiting" /\ disarm'.pc = "done") =>
               /\ disarm'.notified = << [p \in DOMAIN persons |-> PyFalse] >>
               /\ persons' = [p \in DOMAIN persons |-> PyFalse]
        /\ (arm'.notified # arm.notified /\ arm'.notified # <<>>) =>
               (arm.pc = "awaiting" /\ arm'.pc = "done")
        /\ (disarm'.notified # disarm.notified /\ disarm'.notified # <<>>) =>
               (disarm.pc = "awaiting" /\ disarm'.pc = "done")
        /\ arm.pc = "awaiting" => arm'.pc \in {"awaiting", "done", "raised"}
        /\ disarm.pc = "awaiting" => disarm'.pc \in {"awaiting", "done", "raised"}
      ]_vars

\* C9 happens: arm-away raised on a home it would have changed, and disarm
\* returned and notified once.
C9_Witness ==
    /\ arm.pc = "raised"
    /\ arm.notified = <<>>
    /\ \E p \in DOMAIN persons : persons[p] # PyTrue
    /\ disarm.pc = "done"
    /\ Len(disarm.notified) = 1

\* C10: when arm-away and disarm awaited their remote calls at once and both
\* have ended, the persons' flags are, right after the later return, all the
\* value of the command that returned last.
C10_Overlap ==
    (overlap /\ arm.pc = "done" /\ disarm.pc = "done") =>
        /\ last_step = "async_alarm_arm_away" => AllOutOfSight
        /\ last_step = "async_alarm_disarm" => NoneOutOfSight

\* C10 happens: the two commands overlapped on a full home, arm-away returned
\* first and disarm last.
C10_Witness ==
    /\ overlap
    /\ arm.pc = "done"
    /\ disarm.pc = "done"
    /\ last_step = "async_alarm_disarm"
    /\ DOMAIN persons = PersonIds
    /\ NoneOutOfSight

=============================================================================
